---- MODULE Spec2Model ----
(***************************************************************************)
(* Model of the audit service of main.py: the lifespan manager (pool       *)
(* creation, CREATE TABLE IF NOT EXISTS, pool close), the three request    *)
(* handlers get_all_audits, get_audit_by_id and create_audit, and the      *)
(* audits table they read and write.                                       *)
(***************************************************************************)
EXTENDS Integers, Sequences, FiniteSets, TLC

\* ---------------------------------------------------------------- bounds
\* Number of HTTP requests the clients send during one run of the process.
MaxReq == 2
\* Largest reading of the database clock.
MaxClock == 2
\* Largest audit id a client asks for.
MaxAuditId == 2

ReqIds == 1..MaxReq

\* ------------------------------------------------- Python / JSON values
\* A value is a record [t, v]: t is the Python type, v the payload
\* (a string for scalars, a sequence for containers).
PyStr(s) == [t |-> "str", v |-> s]
PyInt(s) == [t |-> "int", v |-> s]
PyNaN == [t |-> "float", v |-> "nan"]
\* A Python object json.dumps has no encoding for (the field is typed Any).
PyObject == [t |-> "object", v |-> "set()"]
PyDict(pairs) == [t |-> "dict", v |-> pairs]
PyList(items) == [t |-> "list", v |-> items]
Absent == [t |-> "absent", v |-> ""]

\* ---------------------------------------------------------- JSON text
\* JSON text is a sequence of tokens [k, v]: punctuation, string literals,
\* number literals and bare words.
Punct(s) == [k |-> "punct", v |-> s]
StrTok(s) == [k |-> "string", v |-> s]
NumTok(s) == [k |-> "number", v |-> s]
WordTok(s) == [k |-> "word", v |-> s]

CanDumpScalar(x) == x.t \in {"str", "int", "float"}

DumpScalar(x) ==
  CASE x.t = "str" -> StrTok(x.v)
    [] x.t = "int" -> NumTok(x.v)
    [] x.t = "float" -> WordTok("NaN")

RECURSIVE DumpPairs(_)
DumpPairs(ps) ==
  IF ps = <<>> THEN <<>>
  ELSE <<StrTok(ps[1][1]), Punct(":"), DumpScalar(ps[1][2])>>
       \o (IF Len(ps) > 1 THEN <<Punct(",")>> ELSE <<>>)
       \o DumpPairs(Tail(ps))

DumpDict(d) == <<Punct("{")>> \o DumpPairs(d.v) \o <<Punct("}")>>

RECURSIVE DumpItems(_)
DumpItems(ds) ==
  IF ds = <<>> THEN <<>>
  ELSE DumpDict(ds[1])
       \o (IF Len(ds) > 1 THEN <<Punct(",")>> ELSE <<>>)
       \o DumpItems(Tail(ds))

\* json.dumps raises TypeError on a value it cannot encode.
CanDump(report) ==
  \A i \in 1..Len(report.v) :
    \A j \in 1..Len(report.v[i].v) : CanDumpScalar(report.v[i].v[j][2])

\* json.dumps(audit.report_data) with the default separators.
JsonDumps(report) == <<Punct("[")>> \o DumpItems(report.v) \o <<Punct("]")>>

\* ------------------------------------------------ the jsonb column type
\* Keys of the objects the clients send, in the order jsonb stores object
\* keys (shorter keys first, then bytewise).
JsonbKeyOrder == <<"a", "id", "item", "score">>
KeyRank(key) == CHOOSE i \in 1..Len(JsonbKeyOrder) : JsonbKeyOrder[i] = key

TokAt(toks, i) == IF i \in 1..Len(toks) THEN toks[i] ELSE Punct("<eof>")

\* The JSON grammar accepts true, false and null as bare words; NaN is not
\* JSON and the server rejects it ("invalid input syntax for type json").
IsJsonScalar(tok) ==
  \/ tok.k \in {"string", "number"}
  \/ tok.k = "word" /\ tok.v \in {"true", "false", "null"}

JsonbScalar(tok) == [t |-> tok.k, v |-> tok.v]

\* An object keeps one value per key (the last one) and its keys sorted.
RECURSIVE InsertMember(_, _)
InsertMember(members, m) ==
  IF members = <<>> THEN <<m>>
  ELSE IF members[1][1] = m[1] THEN <<m>> \o Tail(members)
  ELSE IF KeyRank(m[1]) < KeyRank(members[1][1]) THEN <<m>> \o members
  ELSE <<members[1]>> \o InsertMember(Tail(members), m)

ParseFail == [ok |-> FALSE, next |-> 0, val |-> <<>>]

RECURSIVE ParseMembers(_, _, _)
ParseMembers(toks, i, acc) ==
  IF /\ TokAt(toks, i).k = "string"
     /\ TokAt(toks, i + 1) = Punct(":")
     /\ IsJsonScalar(TokAt(toks, i + 2))
  THEN LET acc2 == InsertMember(acc, <<TokAt(toks, i).v, JsonbScalar(TokAt(toks, i + 2))>>)
       IN  IF TokAt(toks, i + 3) = Punct(",") THEN ParseMembers(toks, i + 4, acc2)
           ELSE IF TokAt(toks, i + 3) = Punct("}")
                THEN [ok |-> TRUE, next |-> i + 4, val |-> acc2]
                ELSE ParseFail
  ELSE ParseFail

ParseObject(toks, i) ==
  IF TokAt(toks, i) # Punct("{") THEN ParseFail
  ELSE IF TokAt(toks, i + 1) = Punct("}")
       THEN [ok |-> TRUE, next |-> i + 2, val |-> <<>>]
       ELSE ParseMembers(toks, i + 1, <<>>)

RECURSIVE ParseElements(_, _, _)
ParseElements(toks, i, acc) ==
  LET o == ParseObject(toks, i) IN
  IF ~o.ok THEN ParseFail
  ELSE LET acc2 == Append(acc, [t |-> "object", v |-> o.val]) IN
       IF TokAt(toks, o.next) = Punct(",") THEN ParseElements(toks, o.next + 1, acc2)
       ELSE IF TokAt(toks, o.next) = Punct("]")
            THEN [ok |-> TRUE, next |-> o.next + 1, val |-> acc2]
            ELSE ParseFail

\* The server's input conversion of the text parameter $2 to jsonb, for the
\* texts create_audit sends (an array of flat objects).
JsonbIn(toks) ==
  LET r == IF TokAt(toks, 1) # Punct("[") THEN ParseFail
           ELSE IF TokAt(toks, 2) = Punct("]")
                THEN [ok |-> TRUE, next |-> 3, val |-> <<>>]
                ELSE ParseElements(toks, 2, <<>>)
  IN  IF r.ok /\ r.next = Len(toks) + 1
      THEN [ok |-> TRUE, val |-> [t |-> "array", v |-> r.val]]
      ELSE [ok |-> FALSE, val |-> [t |-> "array", v |-> <<>>]]

OutScalar(x) ==
  CASE x.t = "string" -> StrTok(x.v)
    [] x.t = "number" -> NumTok(x.v)
    [] x.t = "word" -> WordTok(x.v)

RECURSIVE OutMembers(_)
OutMembers(ms) ==
  IF ms = <<>> THEN <<>>
  ELSE <<StrTok(ms[1][1]), Punct(":"), OutScalar(ms[1][2])>>
       \o (IF Len(ms) > 1 THEN <<Punct(",")>> ELSE <<>>)
       \o OutMembers(Tail(ms))

RECURSIVE OutElements(_)
OutElements(os) ==
  IF os = <<>> THEN <<>>
  ELSE <<Punct("{")>> \o OutMembers(os[1].v) \o <<Punct("}")>>
       \o (IF Len(os) > 1 THEN <<Punct(",")>> ELSE <<>>)
       \o OutElements(Tail(os))

\* The server's output conversion of a jsonb value to text.
JsonbOut(val) == <<Punct("[")>> \o OutElements(val.v) \o <<Punct("]")>>

\* The driver has no codec for jsonb set on the connection: a jsonb column
\* of a fetched Record is the Python str holding the JSON text.
DecodeJsonbColumn(val) == [t |-> "str", v |-> JsonbOut(val)]

\* ------------------------------------------------------- request inputs
\* Reports the clients send: one holding the object of the documented
\* example and an object whose keys are not in jsonb order, one holding NaN
\* (which json.loads accepts and json.dumps writes as the bare word NaN),
\* and one holding a Python object that json.dumps cannot encode.
ReportGood ==
  PyList(<<PyDict(<<<<"item", PyStr("x")>>, <<"score", PyInt("5")>>>>),
           PyDict(<<<<"id", PyInt("1")>>, <<"a", PyInt("2")>>>>)>>)
ReportNaN == PyList(<<PyDict(<<<<"score", PyNaN>>>>)>>)
ReportObject == PyList(<<PyDict(<<<<"item", PyObject>>>>)>>)
Reports == {ReportGood, ReportNaN, ReportObject}

\* Request bodies: the well-formed ones, one without auditName, one whose
\* reportData is an object and one whose reportData is an array of numbers.
Body(name, report) == [auditName |-> name, reportData |-> report]
NoBody == Body(Absent, Absent)
Bodies ==
  {Body(PyStr("Q1 Review"), r) : r \in Reports}
  \cup {Body(Absent, ReportGood),
        Body(PyStr("Q1 Review"), PyDict(<<>>)),
        Body(PyStr("Q1 Review"), PyList(<<PyInt("1")>>))}

\* A mutant of ValidatesAuditCreate: auditName is not required.
ValidatesReportOnly(body) ==
  /\ body.reportData.t = "list"
  /\ \A i \in 1..Len(body.reportData.v) : body.reportData.v[i].t = "dict"

\* AuditCreate: audit_name is a str under the alias auditName, report_data
\* a list[dict[str, Any]] under the alias reportData, both required.
ValidatesAuditCreate(body) ==
  /\ body.auditName.t = "str"
  /\ body.reportData.t = "list"
  /\ \A i \in 1..Len(body.reportData.v) : body.reportData.v[i].t = "dict"

\* Path parameter audit_id: int.
AuditIds == 1..MaxAuditId

\* ---------------------------------------------------------------- state
VARIABLES
  lifespan_pc,     \* position of lifespan(): "create_pool", "schema_acquire",
                   \* "schema_execute", "serving" (at the yield), "stopped"
  db_pool,         \* the module global db_pool: "None" or "Pool"
  app_state_pool,  \* the attribute app.state.pool: "unset", "None" or "Pool"
  close_calls,     \* number of calls of db_pool.close()
  schema_runs,     \* number of executions of the CREATE TABLE statement
  checked_out,     \* connections checked out of the pool
  table_exists,    \* whether the table audits exists in the database
  rows,            \* the rows of audits, in insertion order
  audits_id_seq,   \* last value of the sequence behind id SERIAL
  now,             \* the database clock
  req              \* the requests: position, input, response

vars == <<lifespan_pc, db_pool, app_state_pool, close_calls, schema_runs,
          checked_out, table_exists, rows, audits_id_seq, now, req>>

dbvars == <<table_exists, rows, audits_id_seq>>
lifevars == <<lifespan_pc, db_pool, app_state_pool, close_calls, schema_runs>>

NoResponse == [detail |-> <<>>, data |-> <<>>]

\* alone records, for a get, that no other request was in flight when it
\* arrived.
NewRequest ==
  [kind |-> "none", pc |-> "new", alone |-> FALSE, audit_id |-> 0, body |-> NoBody, ts |-> 0,
   outcome |-> "none", err |-> "", fetched |-> <<>>, queries |-> 0, new_id |-> 0,
   status |-> 0, unhandled |-> FALSE, resp |-> NoResponse]

\* Rows left in the table by earlier runs of the service. Two inserts that
\* overlapped may have taken their ids in the other order than their
\* timestamps.
EmptyJsonb == [t |-> "array", v |-> <<>>]
OldRow1 == [id |-> 1, audit_name |-> "Old 1", created_at |-> 1, report_data |-> EmptyJsonb]
OldRow2 == [id |-> 2, audit_name |-> "Old 2", created_at |-> 0, report_data |-> EmptyJsonb]
OldTables == {<<>>, <<OldRow1, OldRow2>>}

Init ==
  /\ lifespan_pc = "create_pool"
  /\ db_pool = "None"
  /\ app_state_pool = "unset"
  /\ close_calls = 0
  /\ schema_runs = 0
  /\ checked_out = 0
  /\ table_exists \in BOOLEAN
  /\ rows \in (IF table_exists THEN OldTables ELSE {<<>>})
  /\ audits_id_seq = Len(rows)
  /\ now = 1
  /\ req = [r \in ReqIds |-> NewRequest]

\* ------------------------------------------------------------ the pool
PoolAcquire(n) == n + 1
PoolRelease(n) == n - 1

\* A mutant of ExitWith: the connection is given back only when the block
\* is left normally.
ExitWithLeakOnError(n, outcome) == IF outcome = "error" THEN n ELSE PoolRelease(n)

\* __aexit__ of async with pool.acquire(): the connection goes back to the
\* pool however the block is left.
ExitWith(n, outcome) == PoolRelease(n)

\* Errors the driver raises for reasons outside the program (lost
\* connection, cancelled statement, ...).
DriverErrors == {"ConnectionDoesNotExistError"}

\* ------------------------------------------------------------- lifespan
\* asyncpg.create_pool(...) returns a pool, or raises; on success the pool
\* is bound to the global and to app.state.pool, on failure the except
\* clause prints the error and lifespan goes on to the yield.
CreatePool ==
  /\ lifespan_pc = "create_pool"
  /\ \E ok \in BOOLEAN :
       IF ok
       THEN /\ db_pool' = "Pool"
            /\ app_state_pool' = "Pool"
            /\ lifespan_pc' = "schema_acquire"
       ELSE /\ UNCHANGED <<db_pool, app_state_pool>>
            /\ lifespan_pc' = "serving"
  /\ UNCHANGED <<close_calls, schema_runs, checked_out, dbvars, now, req>>

\* async with db_pool.acquire() as connection: in lifespan.
SchemaAcquire ==
  /\ lifespan_pc = "schema_acquire"
  /\ \E ok \in BOOLEAN :
       IF ok
       THEN /\ checked_out' = PoolAcquire(checked_out)
            /\ lifespan_pc' = "schema_execute"
       ELSE /\ UNCHANGED checked_out
            /\ lifespan_pc' = "serving"
  /\ UNCHANGED <<db_pool, app_state_pool, close_calls, schema_runs, dbvars, now, req>>

\* CREATE TABLE IF NOT EXISTS audits (...): creates the empty table when
\* there is none and leaves an existing table as it is.
CreateTableIfNotExists(exists, table) == IF exists THEN table ELSE <<>>

\* connection.execute(CREATE TABLE ...), then the connection is released and
\* lifespan reaches the yield, whether the statement succeeded or raised.
SchemaExecute ==
  /\ lifespan_pc = "schema_execute"
  /\ schema_runs' = schema_runs + 1
  /\ \E ok \in BOOLEAN :
       /\ IF ok
          THEN /\ rows' = CreateTableIfNotExists(table_exists, rows)
               /\ table_exists' = TRUE
          ELSE UNCHANGED <<rows, table_exists>>
       /\ checked_out' = ExitWith(checked_out, IF ok THEN "ok" ELSE "error")
  /\ lifespan_pc' = "serving"
  /\ UNCHANGED <<db_pool, app_state_pool, close_calls, audits_id_seq, now, req>>

\* The server hands requests to the handlers between the end of startup
\* (the yield) and shutdown.
Accepting == lifespan_pc = "serving"

InFlight(r) == req[r].pc \notin {"new", "done"}

\* A mutant of ShouldClosePool: close is called without the test.
AlwaysClosePool(pool) == TRUE

\* if db_pool: await db_pool.close()
ShouldClosePool(pool) == pool # "None"

\* After the yield: the server has finished its requests.
Shutdown ==
  /\ lifespan_pc = "serving"
  /\ \A r \in ReqIds : ~InFlight(r)
  /\ close_calls' = IF ShouldClosePool(db_pool) THEN close_calls + 1 ELSE close_calls
  /\ lifespan_pc' = "stopped"
  /\ UNCHANGED <<db_pool, app_state_pool, schema_runs, checked_out, dbvars, now, req>>

\* ------------------------------------------------------------ responses
HTTP_503_SERVICE_UNAVAILABLE == 503
HTTP_500_INTERNAL_SERVER_ERROR == 500
HTTP_404_NOT_FOUND == 404
HTTP_201_CREATED == 201

\* Classes derived from Exception among those raised inside the handlers'
\* try blocks: the driver's errors, json.dumps' TypeError, and HTTPException.
ExceptionSubclasses ==
  DriverErrors \cup {"UndefinedTableError", "InvalidTextRepresentationError",
                     "TypeError", "HTTPException"}

\* except Exception as e:
ExceptCatches(class) == class \in ExceptionSubclasses

\* A mutant of GenericDetail: the error text is put into the detail.
DetailWithError(e) == <<"Internal server error", e>>

\* The detail of the HTTPException the except clause of a handler raises.
GenericDetail(e) == <<"Internal server error">>
CreateErrorDetail(e) == <<"Error saving to database: ", e>>
ExceptDetail(kind, e) == IF kind = "create" THEN CreateErrorDetail(e) ELSE GenericDetail(e)

Respond(rq, status, detail, data) ==
  [rq EXCEPT !.pc = "done", !.ts = 0, !.fetched = <<>>,
             !.status = status, !.resp = [detail |-> detail, data |-> data]]

\* An exception no handler catches: the server answers 500 itself.
Unhandled(rq) ==
  [Respond(rq, 500, <<>>, <<>>) EXCEPT !.unhandled = TRUE]

\* An exception of class e raised inside a handler's try block.
RaiseInTry(rq, e) ==
  LET failed == [rq EXCEPT !.outcome = "error", !.err = e] IN
  IF ExceptCatches(e)
  THEN Respond(failed, HTTP_500_INTERNAL_SERVER_ERROR, ExceptDetail(rq.kind, e), <<>>)
  ELSE Unhandled(failed)

\* if not app.state.pool: reading an attribute of app.state that was never
\* set raises AttributeError, outside the try block.
PoolCheck(pool) ==
  CASE pool = "unset" -> "AttributeError"
    [] pool = "None" -> "unavailable"
    [] OTHER -> "available"

HandlerEntry(rq, pool) ==
  CASE PoolCheck(pool) = "AttributeError" -> Unhandled(rq)
    [] PoolCheck(pool) = "unavailable" ->
         Respond(rq, HTTP_503_SERVICE_UNAVAILABLE,
                 <<"Database connection pool is not available.">>, <<>>)
    [] OTHER -> [rq EXCEPT !.pc = "acquire"]

\* ------------------------------------------------------------- requests
Arrived(r, kind) ==
  [req[r] EXCEPT !.kind = kind,
                 !.alone = kind = "get" /\ \A q \in ReqIds : ~InFlight(q)]

\* A client sends a request. A POST body that does not validate against
\* AuditCreate is answered 422 by the framework and the handler is not
\* called; otherwise the handler runs up to its first await.
Request(r) ==
  /\ Accepting
  /\ req[r].pc = "new"
  /\ (IF r = 1 THEN TRUE ELSE req[r - 1].pc # "new")
  /\ \/ req' = [req EXCEPT ![r] = HandlerEntry(Arrived(r, "list"), app_state_pool)]
     \/ \E id \in AuditIds :
          req' = [req EXCEPT ![r] =
                    HandlerEntry([Arrived(r, "get") EXCEPT !.audit_id = id], app_state_pool)]
     \/ \E b \in Bodies :
          LET rq == [Arrived(r, "create") EXCEPT !.body = b] IN
          req' = [req EXCEPT ![r] =
                    IF ValidatesAuditCreate(b)
                    THEN HandlerEntry(rq, app_state_pool)
                    ELSE Respond(rq, 422, <<"validation error">>, <<>>)]
  /\ UNCHANGED <<lifevars, checked_out, dbvars, now>>

\* Leaving the async with block by an exception of class e.
FailInWith(rq, e) == [rq EXCEPT !.pc = "release", !.outcome = "error", !.err = e, !.ts = 0]

\* The first lines of the async with block, up to the await of the fetch:
\* create_audit serializes the report with json.dumps, which may raise; the
\* statement is sent and the server stamps it with its start time ts.
SendStatement(rq, ts) ==
  IF rq.kind = "create" /\ ~CanDump(rq.body.reportData)
  THEN FailInWith(rq, "TypeError")
  ELSE [rq EXCEPT !.pc = "query", !.ts = ts]

\* async with app.state.pool.acquire() as connection: acquire raises inside
\* the try block, or the connection is handed out and the handler runs to
\* its next await. The database clock has moved on by some amount.
Acquire(r) ==
  /\ req[r].pc = "acquire"
  /\ \/ /\ checked_out' = PoolAcquire(checked_out)
        /\ \E t \in now..MaxClock :
             /\ now' = t
             /\ req' = [req EXCEPT ![r] = SendStatement(@, t)]
     \/ /\ \E e \in DriverErrors : req' = [req EXCEPT ![r] = RaiseInTry(@, e)]
        /\ UNCHANGED <<checked_out, now>>
  /\ UNCHANGED <<lifevars, dbvars>>

\* ----------------------------------------------------------- statements
\* A mutant of NextVal: the sequence does not advance.
NextValStuck(last) == last

\* nextval of the sequence that backs id SERIAL.
NextVal(last) == last + 1

\* A mutant of InsertAudit: the new row takes the place of the last one.
InsertAuditOverLast(table, id, name, ts, report) ==
  LET row == [id |-> id, audit_name |-> name, created_at |-> ts, report_data |-> report]
  IN  IF table = <<>> THEN <<row>> ELSE [table EXCEPT ![Len(table)] = row]

\* INSERT INTO audits (audit_name, report_data) VALUES ($1, $2): id and
\* created_at take their defaults, the next value of the sequence and
\* CURRENT_TIMESTAMP.
InsertAudit(table, id, name, ts, report) ==
  Append(table, [id |-> id, audit_name |-> name, created_at |-> ts, report_data |-> report])

\* SELECT * FROM audits WHERE id = $1, fetchrow: the row, or none.
SelectById(table, id) == SelectSeq(table, LAMBDA row : row.id = id)

Summary(row) == [id |-> row.id, audit_name |-> row.audit_name, created_at |-> row.created_at]

IsOrderedDesc(result) ==
  \A i \in 1..(Len(result) - 1) : result[i].created_at >= result[i + 1].created_at

\* A mutant of SelectSummaries: ORDER BY created_at, ascending.
SelectSummariesAsc(table) ==
  {res \in {[i \in 1..Len(table) |-> Summary(table[p[i]])] : p \in Permutations(1..Len(table))} :
     \A i \in 1..(Len(res) - 1) : res[i].created_at <= res[i + 1].created_at}

\* SELECT id, audit_name, created_at FROM audits ORDER BY created_at DESC:
\* the results the server may return; rows of equal created_at come in
\* any order.
SelectSummaries(table) ==
  {res \in {[i \in 1..Len(table) |-> Summary(table[p[i]])] : p \in Permutations(1..Len(table))} :
     IsOrderedDesc(res)}

\* The error with which the server rejects the statement of request rq, or
\* "" when it accepts it.
StatementError(rq) ==
  IF ~table_exists THEN "UndefinedTableError"
  ELSE IF rq.kind = "create" /\ ~JsonbIn(JsonDumps(rq.body.reportData)).ok
       THEN "InvalidTextRepresentationError"
       ELSE ""

Executed(rq) == [rq EXCEPT !.pc = "release", !.outcome = "ok", !.queries = @ + 1, !.ts = 0]
Failed(rq, e) == [FailInWith(rq, e) EXCEPT !.queries = @ + 1]

\* The statement of request r runs on the server. A failed statement leaves
\* the table as it was; a failed INSERT may have used up a sequence value.
Execute(r) ==
  /\ req[r].pc = "query"
  /\ \/ /\ StatementError(req[r]) # ""
        /\ req' = [req EXCEPT ![r] = Failed(@, StatementError(req[r]))]
        /\ UNCHANGED dbvars
     \/ /\ StatementError(req[r]) = ""
        /\ \E e \in DriverErrors : req' = [req EXCEPT ![r] = Failed(@, e)]
        /\ audits_id_seq' \in
             (IF req[r].kind = "create"
              THEN {audits_id_seq, NextVal(audits_id_seq)} ELSE {audits_id_seq})
        /\ UNCHANGED <<table_exists, rows>>
     \/ /\ StatementError(req[r]) = ""
        /\ req[r].kind = "list"
        /\ \E res \in SelectSummaries(rows) :
             req' = [req EXCEPT ![r] = [Executed(@) EXCEPT !.fetched = res]]
        /\ UNCHANGED dbvars
     \/ /\ StatementError(req[r]) = ""
        /\ req[r].kind = "get"
        /\ req' = [req EXCEPT ![r] =
                     [Executed(@) EXCEPT !.fetched = SelectById(rows, req[r].audit_id)]]
        /\ UNCHANGED dbvars
     \/ /\ StatementError(req[r]) = ""
        /\ req[r].kind = "create"
        /\ LET id == NextVal(audits_id_seq) IN
           /\ audits_id_seq' = id
           /\ rows' = InsertAudit(rows, id, req[r].body.auditName.v, req[r].ts,
                                  JsonbIn(JsonDumps(req[r].body.reportData)).val)
           /\ req' = [req EXCEPT ![r] = [Executed(@) EXCEPT !.new_id = id]]
        /\ UNCHANGED table_exists
  /\ UNCHANGED <<lifevars, checked_out, now>>

\* dict(row) of a fetched Record of audits.
RecordToDict(row) ==
  [id |-> row.id, audit_name |-> row.audit_name, created_at |-> row.created_at,
   report_data |-> DecodeJsonbColumn(row.report_data)]

\* get_audit_by_id after the async with block: if not row: raise
\* HTTPException(404), inside the try block.
GetAfterFetch(rq) ==
  IF Len(rq.fetched) = 0
  THEN IF ExceptCatches("HTTPException")
       THEN Respond([rq EXCEPT !.outcome = "norow"], HTTP_500_INTERNAL_SERVER_ERROR,
                    ExceptDetail(rq.kind, "HTTPException"), <<>>)
       ELSE Respond([rq EXCEPT !.outcome = "norow"], HTTP_404_NOT_FOUND,
                    <<"Audit not found">>, <<>>)
  ELSE Respond(rq, 200, <<>>, <<RecordToDict(rq.fetched[1])>>)

\* What the handler does once its async with block is left.
AfterWith(rq) ==
  CASE rq.outcome = "error" -> RaiseInTry(rq, rq.err)
    [] rq.outcome = "ok" /\ rq.kind = "list" -> Respond(rq, 200, <<>>, rq.fetched)
    [] rq.outcome = "ok" /\ rq.kind = "get" -> GetAfterFetch(rq)
    [] rq.outcome = "ok" /\ rq.kind = "create" ->
         Respond(rq, HTTP_201_CREATED, <<>>,
                 <<[message |-> "Audit report saved successfully", auditId |-> rq.new_id]>>)

\* The async with block is left, normally or by an exception: the
\* connection goes back to the pool and the handler produces its response.
Release(r) ==
  /\ req[r].pc = "release"
  /\ checked_out' = ExitWith(checked_out, req[r].outcome)
  /\ req' = [req EXCEPT ![r] = AfterWith(@)]
  /\ UNCHANGED <<lifevars, dbvars, now>>

\* -------------------------------------------------------- specification
Next ==
  \/ CreatePool
  \/ SchemaAcquire
  \/ SchemaExecute
  \/ Shutdown
  \/ \E r \in ReqIds : Request(r)
  \/ \E r \in ReqIds : Acquire(r)
  \/ \E r \in ReqIds : Execute(r)
  \/ \E r \in ReqIds : Release(r)

Spec == Init /\ [][Next]_vars

\* =============================================================== claims
Done(r) == req[r].pc = "done"
StartupOver == lifespan_pc \in {"serving", "stopped"}

\* C1: get-audit-by-id on an id that matches no stored record, with a
\* usable pool and no database failure, responds 404 and never 500.
C1_MissingIdIsNotFound ==
  \A r \in ReqIds :
    (req[r].kind = "get" /\ Done(r) /\ req[r].outcome = "norow")
      => req[r].status = 404

\* C2: when pool creation failed at startup, every list, get and create
\* request (with a well-formed body) is answered 503 by its handler, without
\* a crash and without a statement sent to the database.
WellFormed(body) ==
  /\ body.auditName.t = "str"
  /\ body.reportData.t = "list"
  /\ \A i \in 1..Len(body.reportData.v) : body.reportData.v[i].t = "dict"

C2_NoPoolIsUnavailable ==
  \A r \in ReqIds :
    (/\ StartupOver
     /\ db_pool = "None"
     /\ req[r].pc # "new"
     /\ req[r].kind = "create" => WellFormed(req[r].body))
      => /\ Done(r)
         /\ req[r].status = 503
         /\ ~req[r].unhandled
         /\ req[r].queries = 0

\* C3: after a successful create, a get-audit-by-id on the returned id that
\* follows it (it arrives when the create is over) returns the submitted
\* name and the submitted report, as the same array of objects.
SameValue(x, y) == x.t = y.t /\ x.v = y.v

C3_RoundTrip ==
  \A c \in ReqIds : \A g \in ReqIds :
    (/\ req[c].kind = "create" /\ Done(c) /\ req[c].status = 201
     /\ req[g].kind = "get" /\ Done(g) /\ req[g].status = 200
     /\ c < g /\ req[g].alone
     /\ req[g].audit_id = req[c].resp.data[1].auditId)
      => /\ req[g].resp.data[1].audit_name = req[c].body.auditName.v
         /\ SameValue(req[g].resp.data[1].report_data, req[c].body.reportData)

\* C4: a create request whose body lacks the name or whose reportData is not
\* an array of objects is answered with a client error (4xx) before any
\* database access: it never acquires a connection, sends no statement and
\* leaves the stored records as they were.
Malformed(body) ==
  \/ body.auditName.t = "absent"
  \/ body.reportData.t # "list"
  \/ \E i \in 1..Len(body.reportData.v) : body.reportData.v[i].t # "dict"

C4_Rejected(r) ==
  /\ Done(r)
  /\ req[r].status \in 400..499
  /\ req[r].queries = 0
  /\ req[r].new_id = 0

C4_MalformedBodyRejected ==
  /\ [](\A r \in ReqIds :
          (req[r].kind = "create" /\ Malformed(req[r].body)) => C4_Rejected(r))
  /\ [][\A r \in ReqIds :
          (req[r].pc = "new" /\ req'[r].kind = "create" /\ Malformed(req'[r].body))
            => (rows' = rows /\ checked_out' = checked_out
                /\ audits_id_seq' = audits_id_seq)]_vars

C4_Witness ==
  \E r \in ReqIds : \E q \in ReqIds :
    /\ req[r].kind = "create" /\ req[r].body.auditName.t = "absent"
    /\ Done(r) /\ req[r].status = 422
    /\ req[q].kind = "create" /\ req[q].body.reportData.t = "dict"
    /\ Done(q) /\ req[q].status = 422
    /\ app_state_pool = "Pool" /\ Len(rows) = 2 /\ checked_out = 0

\* C5: under any interleaving of creates, every stored id was assigned once
\* by the store: ids are pairwise distinct, a row inserted later has a
\* larger id than one inserted earlier, no two creates are given the same
\* id, and the id a create answers with is the id of the row it inserted.
C5_DistinctIncreasingIds ==
  /\ \A i \in 1..Len(rows) : \A j \in 1..Len(rows) :
       i < j => rows[i].id < rows[j].id
  /\ \A i \in 1..Len(rows) : rows[i].id \in 1..audits_id_seq
  /\ \A r \in ReqIds :
       (req[r].kind = "create" /\ req[r].outcome = "ok")
         => /\ Cardinality({i \in 1..Len(rows) : rows[i].id = req[r].new_id}) = 1
            /\ \A q \in ReqIds \ {r} :
                 (req[q].kind = "create" /\ req[q].outcome = "ok")
                   => req[q].new_id # req[r].new_id
            /\ (Done(r) => /\ req[r].status = 201
                           /\ req[r].resp.data[1].auditId = req[r].new_id)

C5_Witness ==
  /\ req[1].kind = "create" /\ req[1].pc = "release" /\ req[1].outcome = "ok"
  /\ req[2].kind = "create" /\ req[2].pc = "release" /\ req[2].outcome = "ok"
  /\ req[2].new_id < req[1].new_id

\* C6: a successful list-audits returns one summary per stored record, most
\* recent first: each entry's created_at is greater than or equal to the
\* next one's; and that result is what the handler answers with.
C6_OneSummaryPerRow(result, table) ==
  /\ Len(result) = Len(table)
  /\ \A i \in 1..Len(table) :
       Cardinality({j \in 1..Len(result) :
                      /\ result[j].id = table[i].id
                      /\ result[j].audit_name = table[i].audit_name
                      /\ result[j].created_at = table[i].created_at}) = 1
  /\ \A j \in 1..Len(result) : DOMAIN result[j] = {"id", "audit_name", "created_at"}

C6_Descending(result) ==
  \A i \in 1..Len(result) : \A j \in 1..Len(result) :
    j = i + 1 => result[i].created_at >= result[j].created_at

C6_ListOrdered ==
  [][\A r \in ReqIds :
       /\ (req[r].kind = "list" /\ req[r].pc = "query" /\ req'[r].outcome = "ok")
            => /\ C6_OneSummaryPerRow(req'[r].fetched, rows)
               /\ C6_Descending(req'[r].fetched)
       /\ (req[r].kind = "list" /\ req[r].pc = "release" /\ req[r].outcome = "ok"
           /\ req'[r].pc = "done")
            => /\ req'[r].status = 200
               /\ req'[r].resp.data = req[r].fetched]_vars

C6_Witness ==
  \E r \in ReqIds :
    /\ req[r].kind = "list" /\ Done(r) /\ req[r].status = 200
    /\ Len(req[r].resp.data) = 3
    /\ req[r].resp.data[1].created_at > req[r].resp.data[2].created_at
    /\ req[r].resp.data[2].created_at > req[r].resp.data[3].created_at
    /\ req[r].resp.data[1].id = 3

\* C7: stored records are append-only: no step removes or changes a stored
\* record, a step adds at most one record, and only the statement of a
\* create request adds one (list and get leave the table as it is).
C7_AppendOnly ==
  [][/\ Len(rows') \in {Len(rows), Len(rows) + 1}
     /\ \A i \in 1..Len(rows) : rows'[i] = rows[i]
     /\ rows' # rows =>
          \E r \in ReqIds :
            /\ req[r].kind = "create" /\ req[r].pc = "query"
            /\ req'[r].outcome = "ok"
            /\ \A q \in ReqIds \ {r} : req'[q] = req[q]]_vars

C7_Witness ==
  /\ Len(rows) = 3
  /\ rows[1] = OldRow1 /\ rows[2] = OldRow2
  /\ \E r \in ReqIds : req[r].kind = "get" /\ Done(r) /\ req[r].status = 200

\* C8: a request holds one connection from its acquire to the end of its
\* async with block and none before or after, whichever way the block is
\* left: the connections checked out are exactly those of the requests (and
\* of the startup) inside their blocks, and none is checked out once no
\* request is in flight.
Holding(r) == req[r].pc \in {"query", "release"}

C8_ConnectionsReleased ==
  /\ checked_out = Cardinality({r \in ReqIds : Holding(r)})
                   + (IF lifespan_pc = "schema_execute" THEN 1 ELSE 0)
  /\ (StartupOver /\ \A r \in ReqIds : req[r].pc \in {"new", "done"})
       => checked_out = 0

C8_Witness ==
  \E r \in ReqIds : \E q \in ReqIds :
    /\ Done(r) /\ req[r].outcome = "error" /\ req[r].queries = 1
    /\ Done(q) /\ req[q].outcome = "norow"
    /\ checked_out = 0

\* C9: a failure while the statement runs is answered 500; list and get
\* answer with one fixed detail whatever the error, create (a failure of
\* json.dumps included) with a detail that holds the error text; the failed
\* request sent at most one statement and inserted no record.
C9_FailureResponses ==
  /\ [](\A r \in ReqIds :
          (Done(r) /\ req[r].outcome = "error")
            => /\ req[r].status = 500
               /\ ~req[r].unhandled
               /\ req[r].kind \in {"list", "get"}
                    => req[r].resp.detail = <<"Internal server error">>
               /\ req[r].kind = "create"
                    => \E i \in 1..Len(req[r].resp.detail) :
                         req[r].resp.detail[i] = req[r].err
               /\ req[r].queries <= 1
               /\ req[r].new_id = 0)
  /\ [][\A r \in ReqIds :
          (req[r].outcome # "error" /\ req'[r].outcome = "error") => rows' = rows]_vars

C9_Witness ==
  \E r \in ReqIds : \E q \in ReqIds :
    /\ Done(r) /\ req[r].kind = "get" /\ req[r].err = "ConnectionDoesNotExistError"
    /\ req[r].queries = 1
    /\ Done(q) /\ req[q].kind = "create" /\ req[q].err = "TypeError"

\* C10: the lifecycle runs initializing, serving, shut down, in that order:
\* no request is handled before pool creation and the schema statement have
\* finished or failed; the schema statement runs at most once, only after
\* the pool was created, and leaves the stored records as they are; at
\* shutdown the pool is closed exactly when one was created.
LifespanRank(pc) ==
  CASE pc = "create_pool" -> 0
    [] pc = "schema_acquire" -> 1
    [] pc = "schema_execute" -> 2
    [] pc = "serving" -> 3
    [] pc = "stopped" -> 4

C10_Lifecycle ==
  /\ [](/\ (\E r \in ReqIds : req[r].pc # "new") => StartupOver
        /\ schema_runs <= 1
        /\ schema_runs = 1 => db_pool = "Pool"
        /\ lifespan_pc = "stopped" => close_calls = (IF db_pool = "Pool" THEN 1 ELSE 0)
        /\ lifespan_pc # "stopped" => close_calls = 0)
  /\ [][/\ LifespanRank(lifespan_pc') >= LifespanRank(lifespan_pc)
        /\ req' # req => (lifespan_pc = "serving" /\ lifespan_pc' = "serving")
        /\ schema_runs' # schema_runs => rows' = rows]_vars

C10_Witness ==
  /\ lifespan_pc = "stopped"
  /\ db_pool = "Pool" /\ close_calls = 1 /\ schema_runs = 1
  /\ Len(rows) = 3 /\ rows[1] = OldRow1 /\ rows[2] = OldRow2

====
